---- MODULE Spec2Model ----
(***************************************************************************)
(* Personal Journal frontend: the HTTP client (api/client.js) and the      *)
(* application shell (App.js).                                             *)
(*                                                                         *)
(* Four specifications:                                                    *)
(*   SpecBase      resolveBaseUrl / API_BASE / getApiBase                  *)
(*   SpecResponse  handleResponse as every client operation reaches it     *)
(*   SpecList      the success continuation of loadEntries on any body     *)
(*   Spec          the application: UI state, token storage, requests in   *)
(*                 flight, and a backend answering them                    *)
(***************************************************************************)
EXTENDS Integers, Sequences, FiniteSets, TLC

VARIABLES
  \* ---- SpecBase
  env,          \* the four configuration sources, as read at module load
  loaded,       \* has api/client.js been evaluated
  API_BASE,     \* const API_BASE
  apiBase,      \* App's const apiBase = api.getApiBase()
  loadEnv,      \* history: the sources as they were when the module loaded
  envChanges,   \* history: number of runtime changes of window.ENV
  \* ---- SpecResponse
  rop,          \* the client operation called
  res,          \* the Response fetch resolved with
  outcome,      \* what the operation's promise settled with
  \* ---- SpecList
  listBody,     \* the body api.listEntries() resolved with
  \* ---- Spec: browser storage
  storageMode,  \* does localStorage work: "ok", "readonly", "unavailable"
  token,        \* localStorage["auth_token"]
  \* ---- Spec: App state (useState)
  user, entries, loading, err, draft,
  \* ---- Spec: requests awaiting their response / continuation
  inflight,     \* in the order they were issued
  issued,       \* number of requests issued so far
  \* ---- Spec: backend
  srvEntries, srvNextId,
  \* ---- Spec: history
  authCtx,      \* the last login-with-token or logout
  last,         \* the last continuation that ran
  allOk,        \* no request has failed so far
  listed        \* identifiers of the entries the list has held so far

baseVars == <<env, loaded, API_BASE, apiBase, loadEnv, envChanges>>
respVars == <<rop, res, outcome>>
listVars == <<listBody>>
storeVars == <<storageMode, token>>
uiVars == <<user, entries, loading, err, draft>>
netVars == <<inflight, issued>>
srvVars == <<srvEntries, srvNextId>>
histVars == <<authCtx, last, allOk, listed>>
appVars == <<storeVars, uiVars, netVars, srvVars, histVars>>
vars == <<baseVars, respVars, listVars, appVars>>

(***************************************************************************)
(* Bounds                                                                  *)
(***************************************************************************)
MaxCfgLen == 2      \* longest configuration value, in characters
MaxEnvChanges == 1  \* runtime changes of window.ENV after the module loaded
MaxRequests == 5    \* requests the application issues in one run
MaxInFlight == 2    \* requests awaiting settlement at once
MaxEntryId == 2     \* identifiers the backend hands out
MaxListLen == 2     \* longest list body of SpecList

\* JavaScript undefined / null in a string-valued slot
Undefined == "<undefined>"

SeqsUpTo(S, n) == UNION {[1..k -> S] : k \in 0..n}

(***************************************************************************)
(* resolveBaseUrl. A configuration value is a string, kept as its sequence  *)
(* of characters so that trim() is computed, or is not set.                *)
(***************************************************************************)
CfgChars == {" ", "a"}
CfgStrings == SeqsUpTo(CfgChars, MaxCfgLen)
Unset == [set |-> FALSE, val |-> <<>>]
CfgValues == {Unset} \cup {[set |-> TRUE, val |-> s] : s \in CfgStrings}
\* in the order of the || chain
Sources == <<"process.env.REACT_APP_API_BASE", "window.ENV.REACT_APP_API_BASE",
             "process.env.VITE_API_BASE", "window.ENV.VITE_API_BASE">>
DefaultBase == <<"http://localhost:3001">>

\* String.prototype.trim
RECURSIVE TrimLeft(_)
TrimLeft(s) == IF s # <<>> /\ Head(s) = " " THEN TrimLeft(Tail(s)) ELSE s
RECURSIVE TrimRight(_)
TrimRight(s) ==
  IF s # <<>> /\ s[Len(s)] = " " THEN TrimRight(SubSeq(s, 1, Len(s) - 1)) ELSE s
Trim(s) == TrimRight(TrimLeft(s))

\* a configuration value as a condition: undefined and "" are falsy
CfgTruthy(v) == v.set /\ v.val # <<>>

\* a || b || c || d : the first truthy operand, else the last one
RECURSIVE OrChain(_, _)
OrChain(e, i) ==
  IF i = Len(Sources) \/ CfgTruthy(e[Sources[i]]) THEN e[Sources[i]]
  ELSE OrChain(e, i + 1)

resolveBaseUrl(e) ==
  LET envBase == OrChain(e, 1)
  IN IF CfgTruthy(envBase) /\ Trim(envBase.val) # <<>> THEN envBase.val
     ELSE DefaultBase

(***************************************************************************)
(* JavaScript values a response body's "detail" may hold                   *)
(***************************************************************************)
JsUndefined == [t |-> "undefined", s |-> "", n |-> 0]
JsNull == [t |-> "null", s |-> "", n |-> 0]
JsStr(s) == [t |-> "str", s |-> s, n |-> 0]
\* an array of n objects (FastAPI's validation errors)
JsArr(n) == [t |-> "arr", s |-> "", n |-> n]

Truthy(v) ==
  CASE v.t = "str" -> v.s # ""
    [] v.t = "arr" -> TRUE
    [] OTHER -> FALSE

\* String(v), as new Error(v) applies it to its message
RECURSIVE JoinObjects(_)
JoinObjects(n) ==
  IF n = 0 THEN ""
  ELSE IF n = 1 THEN "[object Object]"
  ELSE "[object Object]," \o JoinObjects(n - 1)
JsString(v) ==
  CASE v.t = "str" -> v.s
    [] v.t = "arr" -> JoinObjects(v.n)
    [] v.t = "null" -> "null"
    [] OTHER -> "undefined"

(***************************************************************************)
(* handleResponse                                                          *)
(*   res = [status, statusText, contentType, payload]                      *)
(*   contentType: the header as Headers.get returns it (null when absent), *)
(*     its value kept as the sequence of its parts                         *)
(*   payload = [valid, json]: does the payload parse as JSON, and to what  *)
(***************************************************************************)
NoContentType == [present |-> FALSE, val |-> <<>>]
ContentType(parts) == [present |-> TRUE, val |-> parts]
JsonType == ContentType(<<"application/json">>)
JsonUtf8Type == ContentType(<<"application/json", "; charset=utf-8">>)
TextType == ContentType(<<"text/plain">>)

\* contentType.includes("application/json")
Includes(ct, part) == \E i \in 1..Len(ct) : ct[i] = part

\* res.ok
IsOk(r) == r.status \in 200..299

EmptyObject == [kind |-> "object", detail |-> JsUndefined]
ObjectWithDetail(d) == [kind |-> "object", detail |-> d]
NullBody == [kind |-> "null", detail |-> JsUndefined]
TextBody(p) == [kind |-> "text", detail |-> JsUndefined, raw |-> p]

\* isJson ? await res.json().catch(() => ({})) : await res.text()
ParseBody(r, isJson) ==
  IF isJson THEN (IF r.payload.valid THEN r.payload.json ELSE EmptyObject)
  ELSE TextBody(r.payload)

\* body && body.detail
BodyDetail(body) ==
  IF "kind" \in DOMAIN body /\ body.kind = "object" THEN body.detail ELSE JsUndefined

ErrorMessage_IgnoreDetail(isJson, body, statusText) ==
  IF statusText # "" THEN statusText ELSE "Request failed"

ErrorMessage_NoStatusText(isJson, body, statusText) ==
  IF isJson /\ Truthy(BodyDetail(body)) THEN JsString(BodyDetail(body))
  ELSE "Request failed"

\* isJson && body && body.detail ? body.detail : res.statusText || "Request failed"
\* (new Error(message) turns the message into a string)
ErrorMessage(isJson, body, statusText) ==
  IF isJson /\ Truthy(BodyDetail(body)) THEN JsString(BodyDetail(body))
  ELSE IF statusText # "" THEN statusText
  ELSE "Request failed"

Threw(message, status, data) ==
  [kind |-> "threw", message |-> message, status |-> status, data |-> data]
Returned(value) ==
  [kind |-> "returned", message |-> "", status |-> 0, data |-> value]
Pending == [kind |-> "pending", message |-> "", status |-> 0, data |-> NullBody]

handleResponse_NoThrow(r) ==
  LET contentType == IF r.contentType.present THEN r.contentType.val ELSE <<>>
      isJson == Includes(contentType, "application/json")
  IN Returned(ParseBody(r, isJson))

handleResponse(r) ==
  LET contentType == IF r.contentType.present THEN r.contentType.val ELSE <<>>
      isJson == Includes(contentType, "application/json")
      body == ParseBody(r, isJson)
  IN IF ~IsOk(r)
       THEN Threw(ErrorMessage(isJson, body, r.statusText), r.status, body)
       ELSE Returned(body)

\* the operations of api that send a request; each returns handleResponse(res)
\* (login stores the token first, see LoginResolved)
RequestOps == {"login", "register", "me", "listEntries", "createEntry",
               "updateEntry", "deleteEntry"}
AuthOps == {"me", "listEntries", "createEntry", "updateEntry", "deleteEntry"}
ApiResult(op, r) == handleResponse(r)

(***************************************************************************)
(* SpecBase: the module is evaluated once (const API_BASE), App reads      *)
(* getApiBase() on render, window.ENV may be assigned at run time.         *)
(***************************************************************************)
SourceSet == {Sources[i] : i \in 1..Len(Sources)}
RuntimeSources == {"window.ENV.REACT_APP_API_BASE", "window.ENV.VITE_API_BASE"}
NotResolved == <<>>

IdleBase ==
  /\ env = [s \in SourceSet |-> Unset]
  /\ loaded = TRUE
  /\ API_BASE = DefaultBase
  /\ apiBase = DefaultBase
  /\ loadEnv = env
  /\ envChanges = 0

InitBase ==
  /\ env \in [SourceSet -> CfgValues]
  /\ loaded = FALSE
  /\ API_BASE = NotResolved
  /\ apiBase = NotResolved
  /\ loadEnv = env
  /\ envChanges = 0

\* const API_BASE = resolveBaseUrl();
LoadModule ==
  /\ ~loaded
  /\ loaded' = TRUE
  /\ API_BASE' = resolveBaseUrl(env)
  /\ loadEnv' = env
  /\ UNCHANGED <<env, apiBase, envChanges>>

\* getApiBase() { return API_BASE; }
getApiBase == API_BASE

\* const apiBase = api.getApiBase();  (every render of App)
RenderApp ==
  /\ loaded
  /\ apiBase' = getApiBase
  /\ UNCHANGED <<env, loaded, API_BASE, loadEnv, envChanges>>

\* the page assigns window.ENV after the bundle was evaluated
SetRuntimeEnv ==
  /\ loaded
  /\ envChanges < MaxEnvChanges
  /\ \E s \in RuntimeSources, v \in CfgValues :
       /\ v # env[s]
       /\ env' = [env EXCEPT ![s] = v]
  /\ envChanges' = envChanges + 1
  /\ UNCHANGED <<loaded, API_BASE, apiBase, loadEnv>>

(***************************************************************************)
(* SpecResponse: one client operation, one response                        *)
(***************************************************************************)
Statuses == {200, 401, 422, 500}
StatusTexts == {"", "Unauthorized", "Internal Server Error"}
ContentTypes == {NoContentType, JsonType, JsonUtf8Type, TextType}
Details == {JsStr(""), JsStr("Invalid credentials"), JsStr("Entry not found"),
            JsArr(0), JsArr(1), JsArr(2), JsNull}
JsonBodies == {ObjectWithDetail(d) : d \in Details} \cup {EmptyObject, NullBody}
Payloads == {[valid |-> TRUE, json |-> b] : b \in JsonBodies}
            \cup {[valid |-> FALSE, json |-> NullBody]}
Responses == [status : Statuses, statusText : StatusTexts,
              contentType : ContentTypes, payload : Payloads]
NoResponse == [status |-> 0, statusText |-> "", contentType |-> NoContentType,
               payload |-> [valid |-> FALSE, json |-> NullBody]]

IdleResp ==
  /\ rop = "none"
  /\ res = NoResponse
  /\ outcome = Pending

InitResp ==
  /\ rop \in RequestOps
  /\ res \in Responses
  /\ outcome = Pending

\* fetch resolved with res; the operation settles with handleResponse(res)
SettleCall ==
  /\ outcome.kind = "pending"
  /\ rop \in RequestOps
  /\ outcome' = ApiResult(rop, res)
  /\ UNCHANGED <<rop, res>>

(***************************************************************************)
(* Token storage: localStorage["auth_token"]. storageMode says which calls *)
(* of localStorage throw:  "ok" none;  "readonly" setItem (a full or       *)
(* write-refusing store);  "unavailable" every access.                     *)
(***************************************************************************)
StorageModes == {"ok", "readonly", "unavailable"}
StoredTokens == {"t1"}     \* what an earlier session may have left in the store
FreshTokens == {"t2"}      \* what the backend issues at login
Tokens == StoredTokens \cup FreshTokens

\* try { return localStorage.getItem("auth_token") } catch { return null }
getToken(tok) == IF storageMode = "unavailable" THEN Undefined ELSE tok

\* the stored value after setToken(t), tok being the value before
setToken_KeepOnNull(t, tok) ==
  IF t # Undefined /\ t # "" /\ storageMode = "ok" THEN t ELSE tok

setToken_KeepFirst(t, tok) ==
  IF t # Undefined /\ t # ""
    THEN (IF storageMode = "ok" /\ tok = Undefined THEN t ELSE tok)
    ELSE (IF storageMode = "unavailable" THEN tok ELSE Undefined)

setToken(t, tok) ==
  IF t # Undefined /\ t # ""
    THEN (IF storageMode = "ok" THEN t ELSE tok)                  \* setItem
    ELSE (IF storageMode = "unavailable" THEN tok ELSE Undefined) \* removeItem

JsonHeaders == [h \in {"Content-Type"} |-> "application/json"]

\* the headers of a request built while the store holds tok
buildHeaders(authorized, tok) ==
  IF authorized /\ getToken(tok) # Undefined /\ getToken(tok) # ""
    THEN [h \in {"Content-Type", "Authorization"} |->
            IF h = "Authorization" THEN "Bearer " \o getToken(tok)
            ELSE "application/json"]
    ELSE JsonHeaders

(***************************************************************************)
(* Entries, drafts, App state                                              *)
(***************************************************************************)
NoId == 0
Titles == {"a", "b"}
TypedTitles == {"b"}        \* what the user types into the title input
Contents == {"x"}
EntryIds == 1..MaxEntryId
Entry(i, t, c) == [id |-> i, title |-> t, content |-> c]
EmptyDraft == [id |-> NoId, title |-> "", content |-> ""]
NoUser == NullBody
UserBody == [kind |-> "object", detail |-> JsUndefined, email |-> "me@example.com"]
SignedIn == user # NoUser

\* e?.message || fallback
ErrText(message, fallback) == IF message # "" THEN message ELSE fallback

\* list bodies: a bare array, or an object with or without items
ArrayBody(L) == [kind |-> "array", elems |-> L]
ItemsBody(L) == [kind |-> "object", detail |-> JsUndefined, items |-> L]

NormalizeList_ItemsOnly(list) ==
  IF "items" \in DOMAIN list THEN list.items ELSE <<>>

NormalizeList_Reversed(list) ==
  LET L == IF list.kind = "array" THEN list.elems
           ELSE IF "items" \in DOMAIN list THEN list.items ELSE <<>>
  IN [i \in 1..Len(L) |-> L[Len(L) + 1 - i]]

\* Array.isArray(list) ? list : (list.items || [])
NormalizeList(list) ==
  IF list.kind = "array" THEN list.elems
  ELSE IF "items" \in DOMAIN list THEN list.items
  ELSE <<>>

Prepend_Append(created, prev) == prev \o <<created>>
\* [created, ...prev]
Prepend(created, prev) == <<created>> \o prev

\* prev.map((it) => (it.id === id ? updated : it))
MapReplace(prev, id, updated) ==
  [i \in 1..Len(prev) |-> IF prev[i].id = id THEN updated ELSE prev[i]]

\* prev.filter((it) => it.id !== id)
RECURSIVE FilterOut(_, _)
FilterOut(prev, id) ==
  IF prev = <<>> THEN <<>>
  ELSE IF Head(prev).id = id THEN FilterOut(Tail(prev), id)
  ELSE <<Head(prev)>> \o FilterOut(Tail(prev), id)

(***************************************************************************)
(* Requests in flight, in the order they were issued. A request record     *)
(* holds what fetch was given, what the awaiting handler captured, and the *)
(* response once the backend has produced it:                              *)
(*   state = "sent"      fetch pending                                     *)
(*   state = "answered"  fetch resolved with res, continuation not yet run *)
(*   ctx (history)       authCtx when the request was issued               *)
(*   overtaken (history) a list fetch issued later has already resolved    *)
(***************************************************************************)
NoAuthEvent == [kind |-> "none", tok |-> ""]
LogoutEvent == [kind |-> "logout", tok |-> ""]
LoginEvent(t) == [kind |-> "login", tok |-> t]

NoEvent == [ev |-> "none", op |-> "none", overtaken |-> FALSE]
Settled(r, how) == [ev |-> how, op |-> r.op, overtaken |-> r.overtaken]

Request(op, authorized, tok, t, c, id, ctx) ==
  [op |-> op, headers |-> buildHeaders(authorized, tok),
   title |-> t, content |-> c, id |-> id,
   state |-> "sent", res |-> NoResponse, ctx |-> ctx, overtaken |-> FALSE]

Authorized(r) == "Authorization" \in DOMAIN r.headers

InFlight == 1..Len(inflight)
CanIssue == issued < MaxRequests /\ Len(inflight) < MaxInFlight

Without(q, i) == [j \in 1..(Len(q) - 1) |-> IF j < i THEN q[j] ELSE q[j + 1]]

OkResponse(body) ==
  [status |-> 200, statusText |-> "OK", contentType |-> JsonType,
   payload |-> [valid |-> TRUE, json |-> body]]
ErrorResponse(status, text, detail) ==
  [status |-> status, statusText |-> text, contentType |-> JsonType,
   payload |-> [valid |-> TRUE, json |-> ObjectWithDetail(JsStr(detail))]]
\* an error page over HTTP/2: no JSON, no status text
PlainError ==
  [status |-> 500, statusText |-> "", contentType |-> TextType,
   payload |-> [valid |-> FALSE, json |-> NullBody]]

\* what the awaited client call settles with
CallResult(r) == ApiResult(r.op, r.res)

Sent(i, op) == i \in InFlight /\ inflight[i].op = op /\ inflight[i].state = "sent"
Ready(i, op) == i \in InFlight /\ inflight[i].op = op /\ inflight[i].state = "answered"

(***************************************************************************)
(* The backend (the environment of the application)                        *)
(***************************************************************************)
Answer(i, response) ==
  inflight' = [inflight EXCEPT ![i].state = "answered", ![i].res = response]

SrvHas(id) == \E k \in 1..Len(srvEntries) : srvEntries[k].id = id

EnvUnchanged == UNCHANGED <<baseVars, respVars, listVars, storeVars, uiVars,
                            issued, authCtx, allOk, listed>>

\* a request to an authenticated route without a bearer token
ServerReject(i) ==
  /\ i \in InFlight /\ inflight[i].state = "sent"
  /\ inflight[i].op \in AuthOps /\ ~Authorized(inflight[i])
  /\ Answer(i, ErrorResponse(401, "Unauthorized", "Not authenticated"))
  /\ last' = NoEvent
  /\ UNCHANGED srvVars /\ EnvUnchanged

ServerFail(i) ==
  /\ i \in InFlight /\ inflight[i].state = "sent"
  /\ Answer(i, PlainError)
  /\ last' = NoEvent
  /\ UNCHANGED srvVars /\ EnvUnchanged

\* POST /auth/login -> {access_token, ...}
ServerLogin(i) ==
  /\ Sent(i, "login")
  /\ \/ \E t \in FreshTokens \cup {""} :
          Answer(i, OkResponse([kind |-> "object", detail |-> JsUndefined,
                                access_token |-> t]))
     \/ Answer(i, OkResponse(EmptyObject))
  /\ last' = NoEvent
  /\ UNCHANGED srvVars /\ EnvUnchanged

\* GET /auth/me
ServerMe(i) ==
  /\ Sent(i, "me") /\ Authorized(inflight[i])
  /\ Answer(i, OkResponse(UserBody))
  /\ last' = NoEvent
  /\ UNCHANGED srvVars /\ EnvUnchanged

\* GET /entries -> array or {items: [...]}
ServerList(i) ==
  /\ Sent(i, "listEntries") /\ Authorized(inflight[i])
  /\ \/ Answer(i, OkResponse(ArrayBody(srvEntries)))
     \/ Answer(i, OkResponse(ItemsBody(srvEntries)))
  /\ last' = NoEvent
  /\ UNCHANGED srvVars /\ EnvUnchanged

\* POST /entries -> created entry
ServerCreate(i) ==
  /\ Sent(i, "createEntry") /\ Authorized(inflight[i])
  /\ srvNextId <= MaxEntryId
  /\ LET created == Entry(srvNextId, inflight[i].title, inflight[i].content)
     IN /\ srvEntries' = Append(srvEntries, created)
        /\ srvNextId' = srvNextId + 1
        /\ Answer(i, OkResponse(created))
  /\ last' = NoEvent
  /\ EnvUnchanged

\* PUT /entries/{id} -> updated entry
ServerUpdate(i) ==
  /\ Sent(i, "updateEntry") /\ Authorized(inflight[i])
  /\ LET r == inflight[i]
     IN IF SrvHas(r.id)
          THEN LET updated == Entry(r.id, r.title, r.content)
               IN /\ srvEntries' = MapReplace(srvEntries, r.id, updated)
                  /\ Answer(i, OkResponse(updated))
          ELSE /\ Answer(i, ErrorResponse(404, "Not Found", "Entry not found"))
               /\ UNCHANGED srvEntries
  /\ last' = NoEvent
  /\ UNCHANGED srvNextId /\ EnvUnchanged

\* DELETE /entries/{id} -> confirmation
ServerDelete(i) ==
  /\ Sent(i, "deleteEntry") /\ Authorized(inflight[i])
  /\ LET r == inflight[i]
     IN IF SrvHas(r.id)
          THEN /\ srvEntries' = FilterOut(srvEntries, r.id)
               /\ Answer(i, OkResponse(EmptyObject))
          ELSE /\ Answer(i, ErrorResponse(404, "Not Found", "Entry not found"))
               /\ UNCHANGED srvEntries
  /\ last' = NoEvent
  /\ UNCHANGED srvNextId /\ EnvUnchanged

(***************************************************************************)
(* App: handlers up to their await, and their continuations                *)
(***************************************************************************)
PureUnchanged == UNCHANGED <<baseVars, respVars, listVars>>

\* the identifiers of the items of a list (an item without one has none)
IdsOf(L) == {L[k].id : k \in {j \in 1..Len(L) : "id" \in DOMAIN L[j]}}

\* history: the identifiers the entries list holds after the step are recorded
Remember == listed' = listed \cup IdsOf(entries')

Issue(req) ==
  /\ inflight' = Append(inflight, req)
  /\ issued' = issued + 1

\* a continuation that sends the next request of its handler
Continue(i, req) ==
  /\ issued < MaxRequests
  /\ inflight' = Append(Without(inflight, i), req)
  /\ issued' = issued + 1

Finish(i) ==
  /\ inflight' = Without(inflight, i)
  /\ UNCHANGED issued

\* onLogin, to `await api.login(loginForm)`
onLogin ==
  /\ ~SignedIn                       \* the login form is rendered while !user
  /\ CanIssue
  /\ err' = ""
  /\ Issue(Request("login", FALSE, token, "", "", NoId, authCtx))
  /\ last' = NoEvent
  /\ UNCHANGED <<storeVars, user, entries, loading, draft, srvVars, authCtx, allOk>>
  /\ PureUnchanged /\ Remember

\* if (data && data.access_token) setToken(data.access_token)
LoginStore(data, tok) ==
  IF "access_token" \in DOMAIN data /\ data.access_token # ""
    THEN setToken(data.access_token, tok)
    ELSE tok

\* api.login after its fetch, then onLogin's `await loadMe()` up to api.me()
LoginResolved(i) ==
  /\ Ready(i, "login")
  /\ LET r == inflight[i]
         result == CallResult(r)
     IN IF result.kind = "returned"
          THEN LET tok2 == LoginStore(result.data, token)
                   ctx2 == IF "access_token" \in DOMAIN result.data
                             THEN LoginEvent(result.data.access_token)
                             ELSE authCtx
               IN /\ token' = tok2
                  /\ authCtx' = ctx2
                  /\ err' = ""
                  /\ Continue(i, Request("me", TRUE, tok2, "", "", NoId, ctx2))
                  /\ last' = Settled(r, "ok")
                  /\ UNCHANGED allOk
          ELSE /\ err' = ErrText(result.message, "Login failed")
               /\ Finish(i)
               /\ last' = Settled(r, "fail")
               /\ allOk' = FALSE
               /\ UNCHANGED <<token, authCtx>>
  /\ UNCHANGED <<storageMode, user, entries, loading, draft, srvVars>>
  /\ PureUnchanged /\ Remember

\* loadMe after `await api.me()`; setUser(me) re-runs the effect on [user],
\* which calls loadEntries up to `await api.listEntries()`.
\* (the mount effect's own `if (user) loadEntries()` reads the user of the
\* first render, null, and never calls it)
MeResolved(i) ==
  /\ Ready(i, "me")
  /\ LET r == inflight[i]
         result == CallResult(r)
     IN IF result.kind = "returned"
          THEN /\ user' = result.data
               /\ loading' = TRUE
               /\ err' = ""
               /\ Continue(i, Request("listEntries", TRUE, token, "", "", NoId, authCtx))
               /\ last' = Settled(r, "ok")
               /\ UNCHANGED allOk
          ELSE /\ Finish(i)                 \* catch: ignore when unauthenticated
               /\ last' = Settled(r, "fail")
               /\ allOk' = FALSE
               /\ UNCHANGED <<user, loading, err>>
  /\ UNCHANGED <<storeVars, entries, draft, srvVars, authCtx>>
  /\ PureUnchanged /\ Remember

\* history: the list fetches issued before request i are overtaken
Overtake(q, i) ==
  [j \in 1..Len(q) |->
     IF j < i /\ q[j].op = "listEntries" THEN [q[j] EXCEPT !.overtaken = TRUE]
     ELSE q[j]]

\* loadEntries after `await api.listEntries()`
ListResolved(i) ==
  /\ Ready(i, "listEntries")
  /\ LET r == inflight[i]
         result == CallResult(r)
     IN IF result.kind = "returned"
          THEN /\ entries' = NormalizeList(result.data)
               /\ last' = Settled(r, "ok")
               /\ inflight' = Without(Overtake(inflight, i), i)
               /\ UNCHANGED issued
               /\ UNCHANGED <<err, allOk>>
          ELSE /\ err' = ErrText(result.message, "Failed to load entries")
               /\ last' = Settled(r, "fail")
               /\ allOk' = FALSE
               /\ Finish(i)
               /\ UNCHANGED entries
  /\ loading' = FALSE
  /\ UNCHANGED <<storeVars, user, draft, srvVars, authCtx>>
  /\ PureUnchanged /\ Remember

\* onLogout: await api.logout(); setUser(null); setEntries([])
onLogout ==
  /\ SignedIn                        \* the Logout button is rendered while user
  /\ token' = setToken(Undefined, token)
  /\ user' = NoUser
  /\ entries' = <<>>
  /\ authCtx' = LogoutEvent
  /\ last' = NoEvent
  /\ UNCHANGED <<storageMode, loading, err, draft, netVars, srvVars, allOk>>
  /\ PureUnchanged /\ Remember

UiOnly == UNCHANGED <<storeVars, netVars, srvVars, authCtx, allOk>>

\* the title input's onChange
EditTitle(t) ==
  /\ SignedIn
  /\ draft.title # t
  /\ draft' = [draft EXCEPT !.title = t]
  /\ last' = NoEvent
  /\ UNCHANGED <<user, entries, loading, err>> /\ UiOnly /\ PureUnchanged /\ Remember

\* the content textarea's onChange
EditContent(c) ==
  /\ SignedIn
  /\ draft.content # c
  /\ draft' = [draft EXCEPT !.content = c]
  /\ last' = NoEvent
  /\ UNCHANGED <<user, entries, loading, err>> /\ UiOnly /\ PureUnchanged /\ Remember

\* onSelectEdit(entry): the Edit button of a listed entry
onSelectEdit(entry) ==
  /\ SignedIn /\ ~loading            \* entries are rendered while !loading
  /\ draft' = [id |-> entry.id, title |-> entry.title, content |-> entry.content]
  /\ last' = NoEvent
  /\ UNCHANGED <<user, entries, loading, err>> /\ UiOnly /\ PureUnchanged /\ Remember

\* the Cancel buttons: setDraft({ id: null, title: "", content: "" })
CancelEdit ==
  /\ SignedIn /\ draft.id # NoId
  /\ draft' = EmptyDraft
  /\ last' = NoEvent
  /\ UNCHANGED <<user, entries, loading, err>> /\ UiOnly /\ PureUnchanged /\ Remember

\* onCreate, to `await api.createEntry(...)`
onCreate ==
  /\ SignedIn /\ draft.id = NoId     \* "Add entry" / submit while !draft.id
  /\ CanIssue
  /\ err' = ""
  /\ Issue(Request("createEntry", TRUE, token, draft.title, draft.content,
                   NoId, authCtx))
  /\ last' = NoEvent
  /\ UNCHANGED <<storeVars, user, entries, loading, draft, srvVars, authCtx, allOk>>
  /\ PureUnchanged /\ Remember

\* onCreate after the await
CreateResolved(i) ==
  /\ Ready(i, "createEntry")
  /\ LET r == inflight[i]
         result == CallResult(r)
     IN IF result.kind = "returned"
          THEN /\ draft' = EmptyDraft
               /\ entries' = Prepend(result.data, entries)
               /\ last' = Settled(r, "ok")
               /\ UNCHANGED <<err, allOk>>
          ELSE /\ err' = ErrText(result.message, "Create failed")
               /\ last' = Settled(r, "fail")
               /\ allOk' = FALSE
               /\ UNCHANGED <<entries, draft>>
  /\ Finish(i)
  /\ UNCHANGED <<storeVars, user, loading, srvVars, authCtx>>
  /\ PureUnchanged /\ Remember

\* onUpdate without its `if (!draft.id) return;`
onUpdate_NoGuard ==
  /\ SignedIn
  /\ CanIssue
  /\ err' = ""
  /\ Issue(Request("updateEntry", TRUE, token, draft.title, draft.content,
                   draft.id, authCtx))
  /\ last' = NoEvent
  /\ UNCHANGED <<storeVars, user, entries, loading, draft, srvVars, authCtx, allOk>>
  /\ PureUnchanged /\ Remember

\* onUpdate, to `await api.updateEntry(draft.id, ...)`
onUpdate ==
  /\ SignedIn
  /\ IF draft.id = NoId
       THEN UNCHANGED <<err, netVars>>          \* if (!draft.id) return;
       ELSE /\ CanIssue
            /\ err' = ""
            /\ Issue(Request("updateEntry", TRUE, token, draft.title, draft.content,
                             draft.id, authCtx))
  /\ last' = NoEvent
  /\ UNCHANGED <<storeVars, user, entries, loading, draft, srvVars, authCtx, allOk>>
  /\ PureUnchanged /\ Remember

\* onUpdate after the await; draft.id is the draft of the render that ran onUpdate
UpdateResolved(i) ==
  /\ Ready(i, "updateEntry")
  /\ LET r == inflight[i]
         result == CallResult(r)
     IN IF result.kind = "returned"
          THEN /\ entries' = MapReplace(entries, r.id, result.data)
               /\ draft' = EmptyDraft
               /\ last' = Settled(r, "ok")
               /\ UNCHANGED <<err, allOk>>
          ELSE /\ err' = ErrText(result.message, "Update failed")
               /\ last' = Settled(r, "fail")
               /\ allOk' = FALSE
               /\ UNCHANGED <<entries, draft>>
  /\ Finish(i)
  /\ UNCHANGED <<storeVars, user, loading, srvVars, authCtx>>
  /\ PureUnchanged /\ Remember

\* onDelete(id), to `await api.deleteEntry(id)`: the Delete button of a listed entry
onDelete(id) ==
  /\ SignedIn /\ ~loading
  /\ CanIssue
  /\ err' = ""
  /\ Issue(Request("deleteEntry", TRUE, token, "", "", id, authCtx))
  /\ last' = NoEvent
  /\ UNCHANGED <<storeVars, user, entries, loading, draft, srvVars, authCtx, allOk>>
  /\ PureUnchanged /\ Remember

\* onDelete after the await
DeleteResolved(i) ==
  /\ Ready(i, "deleteEntry")
  /\ LET r == inflight[i]
         result == CallResult(r)
     IN IF result.kind = "returned"
          THEN /\ entries' = FilterOut(entries, r.id)
               /\ last' = Settled(r, "ok")
               /\ UNCHANGED <<err, allOk>>
          ELSE /\ err' = ErrText(result.message, "Delete failed")
               /\ last' = Settled(r, "fail")
               /\ allOk' = FALSE
               /\ UNCHANGED entries
  /\ Finish(i)
  /\ UNCHANGED <<storeVars, user, loading, draft, srvVars, authCtx>>
  /\ PureUnchanged /\ Remember

(***************************************************************************)
(* SpecList: loadEntries' success continuation on any list body            *)
(***************************************************************************)
ListEntries == {Entry(i, t, c) : i \in EntryIds, t \in Titles, c \in Contents}
ListBodies ==
  UNION {{ArrayBody(L), ItemsBody(L)} : L \in SeqsUpTo(ListEntries, MaxListLen)}
  \cup {EmptyObject}
NoListBody == NullBody

\* setEntries(Array.isArray(list) ? list : (list.items || [])); setLoading(false)
ListBodyApplied ==
  /\ listBody \in ListBodies
  /\ loading
  /\ entries' = NormalizeList(listBody)
  /\ loading' = FALSE
  /\ UNCHANGED <<listBody, baseVars, respVars, storeVars, user, err, draft,
                 netVars, srvVars, authCtx, last, allOk>>
  /\ Remember

(***************************************************************************)
(* Initial states and specifications                                       *)
(***************************************************************************)
\* App after its first render and mount effect: loadMe() has called api.me()
InitApp ==
  /\ storageMode \in StorageModes
  /\ token \in (IF storageMode = "unavailable" THEN {Undefined}
                ELSE {Undefined} \cup StoredTokens)
  /\ user = NoUser
  /\ entries = <<>>
  /\ loading = FALSE
  /\ err = ""
  /\ draft = EmptyDraft
  /\ inflight = <<Request("me", TRUE, token, "", "", NoId, NoAuthEvent)>>
  /\ issued = 1
  /\ srvEntries = <<Entry(1, "a", "x")>>
  /\ srvNextId = 2
  /\ authCtx = NoAuthEvent
  /\ last = NoEvent
  /\ allOk = TRUE
  /\ listed = {}

\* the application at rest, for the specifications of the pure parts
IdleApp ==
  /\ storageMode = "ok"
  /\ token = Undefined
  /\ user = NoUser
  /\ entries = <<>>
  /\ loading = FALSE
  /\ err = ""
  /\ draft = EmptyDraft
  /\ inflight = <<>>
  /\ issued = 0
  /\ srvEntries = <<>>
  /\ srvNextId = 1
  /\ authCtx = NoAuthEvent
  /\ last = NoEvent
  /\ allOk = TRUE
  /\ listed = {}

IdleList == listBody = NoListBody

Init == InitApp /\ IdleBase /\ IdleResp /\ IdleList

Next ==
  \/ onLogin
  \/ onLogout
  \/ onCreate
  \/ onUpdate
  \/ CancelEdit
  \/ \E t \in TypedTitles : EditTitle(t)
  \/ \E c \in Contents : EditContent(c)
  \/ \E k \in 1..Len(entries) : onSelectEdit(entries[k])
  \/ \E k \in 1..Len(entries) : onDelete(entries[k].id)
  \/ \E i \in InFlight : LoginResolved(i)
  \/ \E i \in InFlight : MeResolved(i)
  \/ \E i \in InFlight : ListResolved(i)
  \/ \E i \in InFlight : CreateResolved(i)
  \/ \E i \in InFlight : UpdateResolved(i)
  \/ \E i \in InFlight : DeleteResolved(i)
  \/ \E i \in InFlight : ServerReject(i)
  \/ \E i \in InFlight : ServerFail(i)
  \/ \E i \in InFlight : ServerLogin(i)
  \/ \E i \in InFlight : ServerMe(i)
  \/ \E i \in InFlight : ServerList(i)
  \/ \E i \in InFlight : ServerCreate(i)
  \/ \E i \in InFlight : ServerUpdate(i)
  \/ \E i \in InFlight : ServerDelete(i)

Spec == Init /\ [][Next]_vars

InitBaseSpec == InitBase /\ IdleResp /\ IdleList /\ IdleApp
NextBase ==
  \/ LoadModule /\ UNCHANGED <<respVars, listVars, appVars>>
  \/ RenderApp /\ UNCHANGED <<respVars, listVars, appVars>>
  \/ SetRuntimeEnv /\ UNCHANGED <<respVars, listVars, appVars>>
SpecBase == InitBaseSpec /\ [][NextBase]_vars

InitResponseSpec == InitResp /\ IdleBase /\ IdleList /\ IdleApp
NextResponse == SettleCall /\ UNCHANGED <<baseVars, listVars, appVars>>
SpecResponse == InitResponseSpec /\ [][NextResponse]_vars

InitListSpec ==
  /\ listBody \in ListBodies
  /\ IdleBase /\ IdleResp
  /\ storageMode = "ok" /\ token \in Tokens
  /\ user = UserBody
  /\ entries \in SeqsUpTo(ListEntries, 1)   \* what an earlier fetch left
  /\ loading = TRUE
  /\ err = ""
  /\ draft = EmptyDraft
  /\ inflight = <<>> /\ issued = 0
  /\ srvEntries = <<>> /\ srvNextId = 1
  /\ authCtx = NoAuthEvent /\ last = NoEvent /\ allOk = TRUE
  /\ listed = IdsOf(entries)
NextList == ListBodyApplied
SpecList == InitListSpec /\ [][NextList]_vars

(***************************************************************************)
(* Properties                                                              *)
(***************************************************************************)
\* a response's content type is JSON
JsonResponse(r) == r.contentType \in {JsonType, JsonUtf8Type}
\* a response whose body is the JSON object {"detail": X}
DetailResponse(r) ==
  /\ JsonResponse(r) /\ r.payload.valid
  /\ r.payload.json.kind = "object" /\ r.payload.json.detail # JsUndefined
DetailOf(r) == r.payload.json.detail
CallSettled == outcome.kind # "pending"

\* C3 as stated: a non-2xx JSON response with body {"detail": X} makes every
\* operation throw an error whose message is X, with the status and the parsed
\* body, whatever X is.
C3_DetailIsMessage ==
  (CallSettled /\ ~IsOk(res) /\ DetailResponse(res)) =>
    /\ outcome.kind = "threw"
    /\ JsStr(outcome.message) = DetailOf(res)
    /\ outcome.status = res.status
    /\ outcome.data = res.payload.json

\* C3 amended: a non-2xx JSON response with body {"detail": X}, X a non-empty
\* string, makes every operation throw an error whose message is X, carrying
\* the HTTP status and the parsed body; nothing is returned. (A falsy detail
\* gives the status text or "Request failed" instead.)
C3_NonEmptyStringDetailIsMessage ==
  (CallSettled /\ ~IsOk(res) /\ DetailResponse(res)) =>
    /\ outcome.kind = "threw"
    /\ outcome.status = res.status
    /\ outcome.data = res.payload.json
    /\ (DetailOf(res).t = "str" /\ DetailOf(res).s # "")
         => outcome.message = DetailOf(res).s
    /\ ~Truthy(DetailOf(res))
         => outcome.message = (IF res.statusText # "" THEN res.statusText
                               ELSE "Request failed")

C3_Witness ==
  /\ rop = "createEntry" /\ res.status = 422 /\ JsonResponse(res)
  /\ DetailResponse(res) /\ DetailOf(res) = JsStr("Invalid credentials")
  /\ outcome.kind = "threw" /\ outcome.message = "Invalid credentials"

\* C4 as stated: a non-2xx response that is not JSON makes every operation throw
\* an error whose message is the response's status text, whatever that text is.
C4_StatusTextIsMessage ==
  (CallSettled /\ ~IsOk(res) /\ ~JsonResponse(res)) =>
    /\ outcome.kind = "threw"
    /\ outcome.message = res.statusText

\* C4 amended: a non-2xx response that is not JSON makes every operation throw
\* an error whose message is the response's status text when that text is not
\* empty, and "Request failed" when it is empty.
C4_StatusTextOrRequestFailed ==
  (CallSettled /\ ~IsOk(res) /\ ~JsonResponse(res)) =>
    /\ outcome.kind = "threw"
    /\ res.statusText # "" => outcome.message = res.statusText
    /\ res.statusText = "" => outcome.message = "Request failed"

C4_Witness ==
  /\ rop = "deleteEntry" /\ res.status = 500 /\ res.contentType = TextType
  /\ res.payload.valid /\ DetailResponse([res EXCEPT !.contentType = JsonType])
  /\ res.statusText = "Internal Server Error"
  /\ outcome.kind = "threw" /\ outcome.message = "Internal Server Error"

\* C8: a list fetch that succeeds with the bare array L, or with {items: L},
\* leaves the entries state equal to L in the order of the body; an object
\* without items leaves the empty list.
C8_ListBodyNormalized ==
  (~loading /\ listBody # NoListBody) =>
    /\ \A L \in SeqsUpTo(ListEntries, MaxListLen) :
         (listBody = ArrayBody(L) \/ listBody = ItemsBody(L)) => entries = L
    /\ listBody = EmptyObject => entries = <<>>

C8_Witness ==
  /\ ~loading
  /\ \E L \in SeqsUpTo(ListEntries, MaxListLen) :
       /\ Len(L) = 2 /\ L[1].id = 2 /\ L[2].id = 1
       /\ listBody = ItemsBody(L)
       /\ entries = L

\* the highest-priority source that is set and not blank, else the default
RECURSIVE FirstNonBlank(_, _)
FirstNonBlank(e, i) ==
  IF i > Len(Sources) THEN DefaultBase
  ELSE IF e[Sources[i]].set /\ Trim(e[Sources[i]].val) # <<>> THEN e[Sources[i]].val
  ELSE FirstNonBlank(e, i + 1)
AllBlank(e) == \A s \in SourceSet : ~e[s].set \/ Trim(e[s].val) = <<>>

\* C9: the resolved base URL is the value of the highest-priority source that is
\* set and not blank, is the default exactly when every source is unset or
\* blank, and does not change once resolved.
C9_HighestPriorityNonBlankSource ==
  loaded =>
    /\ API_BASE = FirstNonBlank(loadEnv, 1)
    /\ (API_BASE = DefaultBase) <=> AllBlank(loadEnv)
    /\ apiBase \in {NotResolved, API_BASE}

Bearer(r) == r.headers["Authorization"]

\* C1 as stated: every authenticated request issued after a login resolved with
\* a body containing access_token T, and before the next logout or login that
\* returns a token, carries Authorization = "Bearer T".
C1_BearerAfterLogin ==
  \A i \in InFlight :
    LET r == inflight[i]
    IN (r.op \in AuthOps /\ r.ctx.kind = "login") =>
         (Authorized(r) /\ Bearer(r) = "Bearer " \o r.ctx.tok)

\* C1 amended: when the access_token T is a non-empty string and localStorage
\* takes the write and can be read (no storage error is swallowed), every
\* authenticated request issued after that login resolved, and before the next
\* logout or login that returns a token, carries Authorization = "Bearer T".
C1_BearerAfterStoredLogin ==
  \A i \in InFlight :
    LET r == inflight[i]
    IN (r.op \in AuthOps /\ r.ctx.kind = "login" /\ r.ctx.tok # ""
        /\ storageMode = "ok") =>
         (Authorized(r) /\ Bearer(r) = "Bearer " \o r.ctx.tok)

C1_Witness ==
  \E i \in InFlight :
    /\ inflight[i].op = "listEntries"
    /\ inflight[i].ctx = LoginEvent("t2")
    /\ Authorized(inflight[i]) /\ Bearer(inflight[i]) = "Bearer t2"
    /\ storageMode = "ok"

\* C2: every authenticated request issued after a logout, and before the next
\* login that returns an access_token, carries no Authorization header.
C2_NoBearerAfterLogout ==
  \A i \in InFlight :
    (inflight[i].op \in AuthOps /\ inflight[i].ctx.kind = "logout") =>
      ~Authorized(inflight[i])

C2_Witness ==
  \E i \in InFlight :
    /\ inflight[i].op = "listEntries"
    /\ inflight[i].ctx.kind = "logout"
    /\ ~Authorized(inflight[i])
    /\ storageMode = "ok"

\* the step runs the continuation of request i (it leaves the requests in flight)
Consumes(i) ==
  /\ i \in InFlight /\ inflight[i].state = "answered"
  /\ Len(inflight') = Len(inflight) - 1
  /\ inflight' = Without(Overtake(inflight, i), i) \/ inflight' = Without(inflight, i)
SucceededStep(i, op) == Consumes(i) /\ inflight[i].op = op /\ IsOk(inflight[i].res)
FailedStep(i, op) == Consumes(i) /\ inflight[i].op = op /\ ~IsOk(inflight[i].res)
BodySent(r) == r.res.payload.json

\* C5: when a createEntry request succeeds with created entry c, the entries
\* list becomes c followed by the entries held before, in their order, and no
\* request (so no list fetch) is issued.
C5_CreatePrepends ==
  [][\A i \in InFlight :
       SucceededStep(i, "createEntry") =>
         /\ entries' = <<BodySent(inflight[i])>> \o entries
         /\ issued' = issued
         /\ \A k \in 1..Len(inflight') : inflight'[k] \in {inflight[j] : j \in InFlight}
    ]_vars

C5_Witness ==
  /\ last.ev = "ok" /\ last.op = "createEntry"
  /\ Len(entries) = 2 /\ entries[1].id = 2 /\ entries[2].id = 1
  /\ inflight = <<>>

MutatingOps == {"createEntry", "updateEntry", "deleteEntry"}
Fallback(op) ==
  CASE op = "createEntry" -> "Create failed"
    [] op = "updateEntry" -> "Update failed"
    [] OTHER -> "Delete failed"

SetOf(L) == {L[k] : k \in 1..Len(L)}

\* C7: for a signed-in user, whenever every request issued so far has succeeded
\* and none is in flight, the entries list holds exactly the entries the
\* backend holds.
C7_ConsistentWhenQuiet ==
  (SignedIn /\ allOk /\ inflight = <<>>) => SetOf(entries) = SetOf(srvEntries)

\* the sequence a list response carries
ListPayload(r) ==
  LET b == BodySent(r) IN IF b.kind = "array" THEN b.elems ELSE b.items
Strip(q) == [k \in 1..Len(q) |-> [q[k] EXCEPT !.overtaken = FALSE]]

\* C10: requests in flight do not hold each other up or cancel each other: the
\* continuation of any answered request leaves every other request in flight
\* as it is, and a list fetch that succeeds sets the entries list to its own
\* payload when it resolves, also when a list fetch issued after it has
\* resolved before it (the response that resolves last wins).
C10_LastResolvedWins ==
  [][\A i \in InFlight :
       /\ Consumes(i) =>
            SubSeq(Strip(inflight'), 1, Len(inflight) - 1) = Strip(Without(inflight, i))
       /\ SucceededStep(i, "listEntries") => entries' = ListPayload(inflight[i])
    ]_vars

C10_Witness ==
  /\ last.ev = "ok" /\ last.op = "listEntries" /\ last.overtaken
  /\ entries # <<>>

\* the step issues a request: it is the newest of the requests in flight
Issues(op) ==
  /\ issued' = issued + 1
  /\ inflight' # <<>>
  /\ inflight'[Len(inflight')].op = op

\* the step puts the entry at position k of the list into the draft
Selects(k) ==
  /\ k \in 1..Len(entries)
  /\ draft' = [id |-> entries[k].id, title |-> entries[k].title,
               content |-> entries[k].content]
  /\ UNCHANGED <<entries, netVars>>

\* C11: the draft is in create mode (draft.id null) or its id is the identifier
\* of an entry the entries list held at an earlier point; a step gives the
\* draft a non-null id only by selecting an entry of the list for edit; and no
\* updateEntry request is issued while draft.id is null (the request that is
\* issued carries the draft's id).
C11_DraftReferencesListedEntry ==
  /\ [](draft.id = NoId \/ draft.id \in listed)
  /\ [][/\ (draft'.id # NoId /\ draft'.id # draft.id) =>
            \E k \in 1..Len(entries) : Selects(k)
        /\ Issues("updateEntry") =>
            /\ draft.id # NoId
            /\ inflight'[Len(inflight')].id = draft.id
       ]_vars

\* the draft edits an entry that the list no longer holds, and its update is
\* in flight
C11_Witness ==
  /\ draft.id # NoId
  /\ draft.id \notin IdsOf(entries)
  /\ \E i \in InFlight : inflight[i].op = "updateEntry" /\ inflight[i].id = draft.id

\* C12: whenever no user is signed in, the entries list is empty.
C12_NoUserNoEntries == user = NoUser => entries = <<>>

====
